---------------------------- MODULE Spec2Model ----------------------------
(***************************************************************************)
(* A model of the PI-calculator arithmetic engines.                        *)
(*                                                                         *)
(*  - BigDecimal: value = unscaled / 10^scale over BigInt, with rounding.  *)
(*  - BigNumber : schoolbook arithmetic over decimal digit strings.        *)
(*                                                                         *)
(* A JavaScript string is a sequence of one-character strings; a BigInt    *)
(* is an integer; BigInt "/" and "%" truncate toward zero.                 *)
(***************************************************************************)
EXTENDS Integers, Sequences, FiniteSets, TLC

VARIABLES
    x,          \* BigDecimal: the receiver ("this") of the next call
    y,          \* BigDecimal: the argument ("other") of the last binary call
    call,       \* BigDecimal: the last call: [op, scale, mode]
    ret,        \* BigDecimal: how the last call ended
    text,       \* BigDecimal: the string handed to from() / made by toString()
    na,         \* BigNumber: first argument of the last call
    nb,         \* BigNumber: second argument of the last call
    nop,        \* BigNumber: the last call's name
    phase,      \* BigNumber: where the call stands (idle, outer, inner, returned, thrown)
    nret,       \* BigNumber: the string the call returned
    nerr,       \* BigNumber: the message of the error the call threw
    precision,  \* BigNumber.divide: parameter precision
    sign,       \* BigNumber.divide: local sign
    dividend,   \* BigNumber.divide: local dividend
    divisor,    \* BigNumber.divide: local divisor
    quotient,   \* BigNumber.divide: local quotient
    stock,      \* BigNumber.divide: local stock
    remainder,  \* BigNumber.divide: local remainder
    i,          \* BigNumber.divide: local i
    j,          \* BigNumber.divide: local j
    qDigit,     \* BigNumber.divide: local qDigit
    sqrtX,      \* BigNumber.sqrt: local x
    lastX,      \* BigNumber.sqrt: local lastX
    iter,       \* BigNumber.sqrt: local i of the Newton loop
    array,      \* driver: the running triple [count, a, b], <<>> when null
    rowNum,        \* driver: the index of the next row
    valuelist,  \* driver: the rows of the table, as addtable appended them
    pivalue,    \* driver: the digit containers displayPI appended
    pidata,     \* driver: the reference digits, <<>> while undefined
    fetched,    \* driver: the state of the fetch (pending, resolved, failed)
    outcome,    \* driver: how the last handler ended
    scales      \* driver: the precisions the clicks since the last reset ran at

decVars == <<x, y, call, ret, text>>
numVars == <<na, nb, nop, phase, nret, nerr, precision, sign, dividend, divisor,
             quotient, stock, remainder, i, j, qDigit>>
rootVars == <<sqrtX, lastX, iter>>
pageVars == <<array, rowNum, valuelist, pivalue, pidata, fetched, outcome, scales>>
vars == <<x, y, call, ret, text, na, nb, nop, phase, nret, nerr, precision,
          sign, dividend, divisor, quotient, stock, remainder, i, j, qDigit,
          sqrtX, lastX, iter,
          array, rowNum, valuelist, pivalue, pidata, fetched, outcome, scales>>

----------------------------------------------------------------------------
(* Bounds of the model.                                                    *)

MaxUnscaled == 15
MaxScale == 1
MaxScaleArg == 2
MaxTextLen == 3
MaxIntLen == 2
MaxFracLen == 1
MaxPrecision == 2
MaxQDigit == 12
MaxOverrun == 2
MaxRemainder == 90
MaxIterate == 2
MaxWorkingPrecision == 2
MaxRows == 4
MaxContainers == 3

----------------------------------------------------------------------------
(* BigInt arithmetic.                                                      *)

Abs(n) == IF n < 0 THEN -n ELSE n

Sign(n) == IF n > 0 THEN 1 ELSE IF n < 0 THEN -1 ELSE 0

\* BigInt a / b: the quotient truncated toward zero.
TruncDiv(a, b) ==
    IF (a >= 0) = (b > 0) THEN Abs(a) \div Abs(b) ELSE -(Abs(a) \div Abs(b))

\* BigInt a % b: the remainder, with the sign of the dividend.
TruncRem(a, b) == a - b * TruncDiv(a, b)

RECURSIVE tenPow(_)
tenPow(n) == IF n <= 0 THEN 1 ELSE 10 * tenPow(n - 1)

----------------------------------------------------------------------------
(* Strings.                                                                *)

DigitSeq == <<"0", "1", "2", "3", "4", "5", "6", "7", "8", "9">>

IsDigit(c) == \E d \in 1..10 : DigitSeq[d] = c

DigitChar(d) == DigitSeq[d + 1]

DigitVal(c) == (CHOOSE d \in 1..10 : DigitSeq[d] = c) - 1

\* BigInt.prototype.toString of a non-negative BigInt.
RECURSIVE IntToStr(_)
IntToStr(n) ==
    IF n < 10 THEN <<DigitChar(n)>> ELSE IntToStr(n \div 10) \o <<DigitChar(n % 10)>>

\* BigInt(str) of a non-empty string of digits.
RECURSIVE StrToInt(_)
StrToInt(s) ==
    IF Len(s) = 0 THEN 0
    ELSE 10 * StrToInt(SubSeq(s, 1, Len(s) - 1)) + DigitVal(s[Len(s)])

\* The index of the first c in s, 0 when there is none (indexOf + 1).
FirstIndex(s, c) ==
    IF \E k \in 1..Len(s) : s[k] = c
    THEN CHOOSE k \in 1..Len(s) : s[k] = c /\ \A m \in 1..(k - 1) : s[m] # c
    ELSE 0

\* s.slice(n): s without its first n characters.
Slice(s, n) == SubSeq(s, n + 1, Len(s))

\* '0'.repeat(n)
Zeros(n) == [k \in 1..n |-> "0"]

\* s.replace(/^0+/, '')
RECURSIVE StripLeadingZeros(_)
StripLeadingZeros(s) ==
    IF Len(s) > 0 /\ s[1] = "0" THEN StripLeadingZeros(Slice(s, 1)) ELSE s

\* s.replace(/0+$/, '')
RECURSIVE StripTrailingZeros(_)
StripTrailingZeros(s) ==
    IF Len(s) > 0 /\ s[Len(s)] = "0"
    THEN StripTrailingZeros(SubSeq(s, 1, Len(s) - 1)) ELSE s

\* s.replace(/^0+(?=\d)/, ''): leading zeros that a digit follows.
RECURSIVE StripZerosBeforeDigit(_)
StripZerosBeforeDigit(s) ==
    IF Len(s) > 1 /\ s[1] = "0" /\ IsDigit(s[2])
    THEN StripZerosBeforeDigit(Slice(s, 1)) ELSE s

\* s.split('.')[0]
SplitHead(s) ==
    IF FirstIndex(s, ".") = 0 THEN s ELSE SubSeq(s, 1, FirstIndex(s, ".") - 1)

\* s.split('.')[1] || '' (an absent second part and an empty one are both falsy)
SplitSecond(s) ==
    IF FirstIndex(s, ".") = 0 THEN <<>>
    ELSE SplitHead(Slice(s, FirstIndex(s, ".")))

----------------------------------------------------------------------------
(* BigDecimal.                                                             *)

Rounding == {"DOWN", "UP", "FLOOR", "CEIL", "HALF_UP", "HALF_EVEN"}

\* normalize as it would be with an "if" for its "while": one zero stripped.
normalizeOnce(unscaled, scale) ==
    IF unscaled = 0 THEN [unscaled |-> 0, scale |-> 0]
    ELSE IF scale > 0 /\ TruncRem(unscaled, 10) = 0
         THEN [unscaled |-> TruncDiv(unscaled, 10), scale |-> scale - 1]
         ELSE [unscaled |-> unscaled, scale |-> scale]

\* #normalize, run on the fields the constructor has just stored
RECURSIVE normalize(_, _)
normalize(unscaled, scale) ==
    IF unscaled = 0 THEN [unscaled |-> 0, scale |-> 0]
    ELSE IF scale > 0 /\ TruncRem(unscaled, 10) = 0
         THEN normalize(TruncDiv(unscaled, 10), scale - 1)
         ELSE [unscaled |-> unscaled, scale |-> scale]

\* new BigDecimal(unscaled, scale), scale a non-negative integer
BigDecimal(unscaled, scale) == normalize(unscaled, scale)

zero == BigDecimal(0, 0)

\* How a call ends: with a value, with a comparison result, or by throwing.
NoReturn == [kind |-> "none", val |-> zero, n |-> 0, err |-> ""]
Returned(v) == [kind |-> "value", val |-> v, n |-> 0, err |-> ""]
ReturnedInt(k) == [kind |-> "int", val |-> zero, n |-> k, err |-> ""]
Thrown(e) == [kind |-> "throw", val |-> zero, n |-> 0, err |-> e]

\* alignScales as it would be scaling the wrong operand when a has the
\* larger scale.
alignScalesWrongOperand(a, b) ==
    IF a.scale = b.scale THEN <<a.unscaled, b.unscaled, a.scale>>
    ELSE IF a.scale > b.scale
         THEN <<a.unscaled * tenPow(a.scale - b.scale), b.unscaled, a.scale>>
         ELSE <<a.unscaled * tenPow(b.scale - a.scale), b.unscaled, b.scale>>

\* #alignScales: <<A', B', commonScale>>
alignScales(a, b) ==
    IF a.scale = b.scale THEN <<a.unscaled, b.unscaled, a.scale>>
    ELSE IF a.scale > b.scale
         THEN <<a.unscaled, b.unscaled * tenPow(a.scale - b.scale), a.scale>>
         ELSE <<a.unscaled * tenPow(b.scale - a.scale), b.unscaled, b.scale>>

compareTo(a, b) ==
    LET al == alignScales(a, b)
    IN  IF al[1] = al[2] THEN 0 ELSE IF al[1] > al[2] THEN 1 ELSE -1

eq(a, b) == compareTo(a, b) = 0
lt(a, b) == compareTo(a, b) < 0
lte(a, b) == compareTo(a, b) <= 0
gt(a, b) == compareTo(a, b) > 0
gte(a, b) == compareTo(a, b) >= 0

\* add as it would be keeping the receiver's scale, not the common one.
addReceiverScale(a, b) ==
    LET al == alignScales(a, b) IN BigDecimal(al[1] + al[2], a.scale)

add(a, b) ==
    LET al == alignScales(a, b) IN BigDecimal(al[1] + al[2], al[3])

sub(a, b) ==
    LET al == alignScales(a, b) IN BigDecimal(al[1] - al[2], al[3])

mul(a, b) == BigDecimal(a.unscaled * b.unscaled, a.scale + b.scale)

\* applyRounding as it would be testing "q % 2n === 1n" for an odd q on a
\* HALF_EVEN tie, which no negative q passes.
applyRoundingOddTest(q, r, d, mode, positiveSign) ==
    IF r = 0 THEN q
    ELSE LET absR2 == 2 * Abs(r)
             absD == Abs(d)
             isHalf == absR2 = absD
             greaterHalf == absR2 > absD
             sgn == IF positiveSign THEN 1 ELSE -1
         IN  CASE mode = "DOWN" -> q
               [] mode = "UP" -> q + sgn
               [] mode = "FLOOR" -> IF positiveSign THEN q ELSE q - 1
               [] mode = "CEIL" -> IF positiveSign THEN q + 1 ELSE q
               [] mode = "HALF_UP" -> IF greaterHalf \/ isHalf THEN q + sgn ELSE q
               [] mode = "HALF_EVEN" ->
                    IF greaterHalf THEN q + sgn
                    ELSE IF isHalf
                         THEN (IF TruncRem(q, 2) = 1 THEN q + sgn ELSE q)
                         ELSE q

\* #applyRounding, for a mode of the Rounding enumeration
applyRounding(q, r, d, mode, positiveSign) ==
    IF r = 0 THEN q
    ELSE LET absR2 == 2 * Abs(r)
             absD == Abs(d)
             isHalf == absR2 = absD
             greaterHalf == absR2 > absD
             sgn == IF positiveSign THEN 1 ELSE -1
         IN  CASE mode = "DOWN" -> q
               [] mode = "UP" -> q + sgn
               [] mode = "FLOOR" -> IF positiveSign THEN q ELSE q - 1
               [] mode = "CEIL" -> IF positiveSign THEN q + 1 ELSE q
               [] mode = "HALF_UP" -> IF greaterHalf \/ isHalf THEN q + sgn ELSE q
               [] mode = "HALF_EVEN" ->
                    IF greaterHalf THEN q + sgn
                    ELSE IF isHalf
                         THEN (IF TruncRem(q, 2) = 0 THEN q ELSE q + sgn)
                         ELSE q

\* #roundQuotient
roundQuotient(q, r, d, mode) == applyRounding(q, r, d, mode, q >= 0)

\* divExact as it would be without the test of the remainder r.
divExactUnchecked(a, b) ==
    LET shift == b.scale - a.scale
        pow == tenPow(-shift)
        numerator == IF shift >= 0 THEN a.unscaled * tenPow(shift)
                     ELSE TruncDiv(a.unscaled, pow)
    IN  IF shift < 0 /\ TruncRem(a.unscaled, pow) # 0
        THEN Thrown("RangeError: Non-terminating division; specify scale & rounding")
        ELSE Returned(BigDecimal(TruncDiv(numerator, b.unscaled), 0))

\* div with the scale omitted: exact division, or a throw
divExact(a, b) ==
    LET shift == b.scale - a.scale
        pow == tenPow(-shift)
        numerator == IF shift >= 0 THEN a.unscaled * tenPow(shift)
                     ELSE TruncDiv(a.unscaled, pow)
        q == TruncDiv(numerator, b.unscaled)
        r == TruncRem(numerator, b.unscaled)
    IN  IF shift < 0 /\ TruncRem(a.unscaled, pow) # 0
        THEN Thrown("RangeError: Non-terminating division; specify scale & rounding")
        ELSE IF r # 0
             THEN Thrown("RangeError: Non-terminating division; specify scale & rounding")
             ELSE Returned(BigDecimal(q, 0))

\* divScaled as it would be with the divisor's scale left out of neededPow.
divScaledNoDivisorScale(a, b, scale, rounding) ==
    LET neededPow == scale - a.scale
    IN  IF scale < 0 THEN Thrown("TypeError: scale must be non-negative integer")
        ELSE IF neededPow < 0
        THEN LET dvsr == tenPow(-neededPow)
                 num == TruncDiv(a.unscaled, dvsr)
                 remPre == TruncRem(a.unscaled, dvsr)
                 q == TruncDiv(num, b.unscaled)
                 r == TruncRem(num, b.unscaled)
                 nonZeroRemainder == (r # 0) \/ (remPre # 0)
                 result == IF nonZeroRemainder
                           THEN applyRounding(q, 1, 2, rounding, q >= 0)
                           ELSE q
             IN  Returned(BigDecimal(result, scale))
        ELSE LET factor == tenPow(neededPow)
                 numerator == a.unscaled * factor
                 q == TruncDiv(numerator, b.unscaled)
                 r == TruncRem(numerator, b.unscaled)
                 rounded == roundQuotient(q, r, b.unscaled, rounding)
             IN  Returned(BigDecimal(rounded, scale))

\* div to a requested scale, with rounding
divScaled(a, b, scale, rounding) ==
    LET neededPow == scale + b.scale - a.scale
    IN  IF scale < 0 THEN Thrown("TypeError: scale must be non-negative integer")
        ELSE IF neededPow < 0
        THEN LET dvsr == tenPow(-neededPow)
                 num == TruncDiv(a.unscaled, dvsr)
                 remPre == TruncRem(a.unscaled, dvsr)
                 q == TruncDiv(num, b.unscaled)
                 r == TruncRem(num, b.unscaled)
                 nonZeroRemainder == (r # 0) \/ (remPre # 0)
                 result == IF nonZeroRemainder
                           THEN applyRounding(q, 1, 2, rounding, q >= 0)
                           ELSE q
             IN  Returned(BigDecimal(result, scale))
        ELSE LET factor == tenPow(neededPow)
                 numerator == a.unscaled * factor
                 q == TruncDiv(numerator, b.unscaled)
                 r == TruncRem(numerator, b.unscaled)
                 rounded == roundQuotient(q, r, b.unscaled, rounding)
             IN  Returned(BigDecimal(rounded, scale))

\* div(other, scale, rounding); scale is <<>> when omitted, <<s>> when given
div(a, b, scale, rounding) ==
    IF b.unscaled = 0 THEN Thrown("RangeError: Division by zero")
    ELSE IF scale = <<>> THEN divExact(a, b)
    ELSE divScaled(a, b, scale[1], rounding)

setScale(a, scale, rounding) ==
    IF scale < 0 THEN Thrown("TypeError: scale must be non-negative integer")
    ELSE IF scale = a.scale THEN Returned(BigDecimal(a.unscaled, a.scale))
    ELSE IF scale > a.scale
         THEN Returned(BigDecimal(a.unscaled * tenPow(scale - a.scale), scale))
         ELSE LET factor == tenPow(a.scale - scale)
                  q == TruncDiv(a.unscaled, factor)
                  r == TruncRem(a.unscaled, factor)
                  rounded == applyRounding(q, r, factor, rounding, a.unscaled >= 0)
              IN  Returned(BigDecimal(rounded, scale))

\* #bitLength
RECURSIVE bitLength(_)
bitLength(n) == IF n = 0 THEN 0 ELSE 1 + bitLength(n \div 2)

RECURSIVE TwoPow(_)
TwoPow(n) == IF n <= 0 THEN 1 ELSE 2 * TwoPow(n - 1)

\* the while loop of #isqrt
RECURSIVE isqrtLoop(_, _, _)
isqrtLoop(n, x0, x1) ==
    IF x1 < x0 THEN isqrtLoop(n, x1, (x1 + n \div x1) \div 2) ELSE x0

\* #isqrt of a non-negative BigInt
isqrt(n) ==
    IF n < 2 THEN n
    ELSE LET x0 == TwoPow(bitLength(n) \div 2)
         IN  isqrtLoop(n, x0, (x0 + n \div x0) \div 2)

\* sqrt as it would be taking the integer root one digit further than asked
\* and leaving setScale to round the digit away.
sqrtExtraDigit(a, scale, rounding) ==
    IF a.unscaled < 0 THEN Thrown("RangeError: sqrt of negative")
    ELSE IF scale < 0 THEN Thrown("TypeError: scale must be non-negative integer")
    ELSE IF a.unscaled = 0 THEN Returned(zero)
    ELSE LET exp == 2 * scale - a.scale
             bump == ((-exp) + 1) \div 2
             I == IF exp >= 0 THEN a.unscaled * tenPow(exp + 2)
                  ELSE a.unscaled * tenPow(2 * bump)
             scaleAdjust == IF exp >= 0 THEN scale + 1 ELSE scale + bump
             sqrtI == isqrt(I)
         IN  setScale(BigDecimal(sqrtI, scaleAdjust), scale, rounding)

sqrt(a, scale, rounding) ==
    IF a.unscaled < 0 THEN Thrown("RangeError: sqrt of negative")
    ELSE IF scale < 0 THEN Thrown("TypeError: scale must be non-negative integer")
    ELSE IF a.unscaled = 0 THEN Returned(zero)
    ELSE LET exp == 2 * scale - a.scale
             bump == ((-exp) + 1) \div 2
             I == IF exp >= 0 THEN a.unscaled * tenPow(exp)
                  ELSE a.unscaled * tenPow(2 * bump)
             scaleAdjust == IF exp >= 0 THEN scale ELSE scale + bump
             sqrtI == isqrt(I)
         IN  setScale(BigDecimal(sqrtI, scaleAdjust), scale, rounding)

\* The regular expression /^[-+]?\d*(?:\.\d*)?$/ of from()
MatchesDecimal(s) ==
    LET body == IF Len(s) > 0 /\ s[1] \in {"-", "+"} THEN Slice(s, 1) ELSE s
        dot == FirstIndex(body, ".")
    IN  \A k \in 1..Len(body) : IsDigit(body[k]) \/ (k = dot)

\* from(x) for a string x without surrounding white space
from(s) ==
    IF ~MatchesDecimal(s) THEN Thrown("SyntaxError: Invalid decimal string")
    ELSE LET sgn == IF Len(s) > 0 /\ s[1] = "-" THEN -1 ELSE 1
             body == IF Len(s) > 0 /\ s[1] \in {"-", "+"} THEN Slice(s, 1) ELSE s
             intPart == IF SplitHead(body) = <<>> THEN <<"0">> ELSE SplitHead(body)
             fracPart == SplitSecond(body)
             unscaledStr == StripZerosBeforeDigit(intPart \o fracPart)
         IN  Returned(BigDecimal(sgn * StrToInt(unscaledStr), Len(fracPart)))

\* toString()
toString(a) ==
    IF a.unscaled = 0 THEN <<"0">>
    ELSE LET negative == a.unscaled < 0
             s == IntToStr(Abs(a.unscaled))
             len == Len(s)
             minus == IF negative THEN <<"-">> ELSE <<>>
         IN  IF a.scale = 0 THEN minus \o s
             ELSE IF len <= a.scale
                  THEN minus \o <<"0", ".">> \o Zeros(a.scale - len)
                             \o StripTrailingZeros(s)
                  ELSE minus \o SubSeq(s, 1, len - a.scale) \o <<".">>
                             \o SubSeq(s, len - a.scale + 1, len)

----------------------------------------------------------------------------
(* BigNumber: arithmetic on decimal digit strings.                         *)

\* The characters the strings are made of, in the order of their code units.
CodeOrder ==
    <<"+", "-", ".", "0", "1", "2", "3", "4", "5", "6", "7", "8", "9",
      "N", "a", "d", "e", "f", "i", "n", "u">>

CharCode(c) == CHOOSE k \in 1..Len(CodeOrder) : CodeOrder[k] = c

\* s > t for two strings: the comparison by code units.
RECURSIVE StrGreater(_, _)
StrGreater(s, t) ==
    IF Len(s) = 0 THEN FALSE
    ELSE IF Len(t) = 0 THEN TRUE
    ELSE IF s[1] # t[1] THEN CharCode(s[1]) > CharCode(t[1])
    ELSE StrGreater(Slice(s, 1), Slice(t, 1))

\* s.replace(c, ''): s without the first c in it.
RemoveFirst(s, c) ==
    IF FirstIndex(s, c) = 0 THEN s
    ELSE SubSeq(s, 1, FirstIndex(s, c) - 1) \o Slice(s, FirstIndex(s, c))

StartsWith(s, c) == Len(s) > 0 /\ s[1] = c

EndsWith(s, c) == Len(s) > 0 /\ s[Len(s)] = c

\* s.padEnd(n, '0') and s.padStart(n, '0')
PadEnd(s, n) == s \o Zeros(n - Len(s))
PadStart(s, n) == Zeros(n - Len(s)) \o s

\* s.slice(0, -n) and s.slice(-n), n > 0
DropLast(s, n) == SubSeq(s, 1, Len(s) - n)
TakeLast(s, n) == IF n >= Len(s) THEN s ELSE SubSeq(s, Len(s) - n + 1, Len(s))

Max(a, b) == IF a > b THEN a ELSE b

NaNText == <<"N", "a", "N">>

UndefinedText == <<"u", "n", "d", "e", "f", "i", "n", "e", "d">>

\* _normalize
BigNumber_normalize(numStr) ==
    LET head == SplitHead(numStr)
        stripped == StripLeadingZeros(head)
        integerPart == IF head # <<>> /\ stripped # <<>> THEN stripped ELSE <<"0">>
        fractionalPart == SplitSecond(numStr)
        trimmed == StripTrailingZeros(fractionalPart)
    IN  IF fractionalPart # <<>> /\ trimmed # <<>>
        THEN integerPart \o <<".">> \o trimmed
        ELSE integerPart

\* _compare, once both strings are normalized and split at the point
CompareParts(aInt, aFrac, bInt, bFrac) ==
    IF Len(aInt) > Len(bInt) THEN 1
    ELSE IF Len(aInt) < Len(bInt) THEN -1
    ELSE IF StrGreater(aInt, bInt) THEN 1
    ELSE IF StrGreater(bInt, aInt) THEN -1
    ELSE IF StrGreater(PadEnd(aFrac, Max(Len(aFrac), Len(bFrac))),
                       PadEnd(bFrac, Max(Len(aFrac), Len(bFrac)))) THEN 1
    ELSE IF StrGreater(PadEnd(bFrac, Max(Len(aFrac), Len(bFrac))),
                       PadEnd(aFrac, Max(Len(aFrac), Len(bFrac)))) THEN -1
    ELSE 0

\* _compare, once both strings are normalized
CompareNormalized(a, b) ==
    CompareParts(SplitHead(a), SplitSecond(a), SplitHead(b), SplitSecond(b))

\* _compare: the absolute values compared
BigNumber_compare(a, b) ==
    CompareNormalized(BigNumber_normalize(RemoveFirst(a, "-")),
                      BigNumber_normalize(RemoveFirst(b, "-")))

\* parseInt(s[k]) is NaN: the character is missing or is no digit.
NotANumber(s, k) == k > Len(s) \/ ~IsDigit(s[k])

\* The digit loop of add, from index k down: <<result, carry > 0>>.  A NaN
\* sum prints as "NaN" and leaves a NaN carry, which no later sum recovers from.
RECURSIVE AddDigits(_, _, _, _, _, _)
AddDigits(numA, numB, k, carry, carryNaN, result) ==
    IF k = 0 THEN <<result, ~carryNaN /\ carry > 0>>
    ELSE IF carryNaN \/ NotANumber(numA, k) \/ NotANumber(numB, k)
         THEN AddDigits(numA, numB, k - 1, 0, TRUE, NaNText \o result)
         ELSE LET sum == DigitVal(numA[k]) + DigitVal(numB[k]) + carry
              IN  AddDigits(numA, numB, k - 1, sum \div 10, FALSE,
                            <<DigitChar(sum % 10)>> \o result)

\* The digit loop of subtract, from index k down.  A NaN difference prints as
\* "NaN" and clears the borrow.
RECURSIVE SubtractDigits(_, _, _, _, _)
SubtractDigits(numA, numB, k, borrow, result) ==
    IF k = 0 THEN result
    ELSE IF NotANumber(numA, k) \/ NotANumber(numB, k)
         THEN SubtractDigits(numA, numB, k - 1, 0, NaNText \o result)
         ELSE LET diff == DigitVal(numA[k]) - DigitVal(numB[k]) - borrow
              IN  IF diff < 0
                  THEN SubtractDigits(numA, numB, k - 1, 1,
                                      <<DigitChar(diff + 10)>> \o result)
                  ELSE SubtractDigits(numA, numB, k - 1, 0,
                                      <<DigitChar(diff)>> \o result)

\* The end of add and of subtract: the point put back, the result normalized.
PlacePoint(result, fracLen) ==
    IF fracLen > 0
    THEN BigNumber_normalize(
             (IF DropLast(result, fracLen) = <<>> THEN <<"0">>
              ELSE DropLast(result, fracLen))
             \o <<".">> \o TakeLast(result, fracLen))
    ELSE BigNumber_normalize(result)

\* add: the digit loop run on the aligned digit strings, the carry put in front
AddAligned(numA, numB, fracLen) ==
    LET loop == AddDigits(numA, numB, Len(numA), 0, FALSE, <<>>)
    IN  PlacePoint(IF loop[2] THEN <<"1">> \o loop[1] ELSE loop[1], fracLen)

\* add: the parts of two operands without sign padded to the same lengths
AddParts(aInt, aFrac, bInt, bFrac) ==
    AddAligned(PadStart(aInt, Max(Len(aInt), Len(bInt)))
                   \o PadEnd(aFrac, Max(Len(aFrac), Len(bFrac))),
               PadStart(bInt, Max(Len(aInt), Len(bInt)))
                   \o PadEnd(bFrac, Max(Len(aFrac), Len(bFrac))),
               Max(Len(aFrac), Len(bFrac)))

\* add, once both operands have the same sign
AddSameSign(a0, b0) ==
    IF StartsWith(a0, "-") /\ StartsWith(b0, "-")
    THEN <<"-">> \o AddParts(SplitHead(Slice(a0, 1)), SplitSecond(Slice(a0, 1)),
                             SplitHead(Slice(b0, 1)), SplitSecond(Slice(b0, 1)))
    ELSE AddParts(SplitHead(a0), SplitSecond(a0), SplitHead(b0), SplitSecond(b0))

\* subtract: the digit loop run on the parts of a >= b
SubtractParts(aInt, aFrac, bInt, bFrac) ==
    PlacePoint(
        SubtractDigits(aInt \o PadEnd(aFrac, Max(Len(aFrac), Len(bFrac))),
                       PadStart(bInt, Len(aInt))
                           \o PadEnd(bFrac, Max(Len(aFrac), Len(bFrac))),
                       Len(aInt) + Max(Len(aFrac), Len(bFrac)), 0, <<>>),
        Max(Len(aFrac), Len(bFrac)))

\* subtract, once the operands are ordered: a is the larger one
SubtractOrdered(a, b) ==
    SubtractParts(SplitHead(a), SplitSecond(a), SplitHead(b), SplitSecond(b))

\* subtract, once neither operand has a minus sign
SubtractUnsigned(a0, b0) ==
    LET comparison == BigNumber_compare(a0, b0)
    IN  IF comparison = 0 THEN <<"0">>
        ELSE IF comparison = -1 THEN <<"-">> \o SubtractOrdered(b0, a0)
        ELSE SubtractOrdered(a0, b0)

\* add and subtract call each other on the signs of their operands: fn is
\* "add" or "subtract".
RECURSIVE AddOrSubtract(_, _, _)
AddOrSubtract(fn, a0, b0) ==
    IF fn = "add"
    THEN IF StartsWith(a0, "-") /\ ~StartsWith(b0, "-")
         THEN AddOrSubtract("subtract", b0, Slice(a0, 1))
         ELSE IF ~StartsWith(a0, "-") /\ StartsWith(b0, "-")
         THEN AddOrSubtract("subtract", a0, Slice(b0, 1))
         ELSE AddSameSign(a0, b0)
    ELSE IF StartsWith(a0, "-") /\ ~StartsWith(b0, "-")
         THEN AddOrSubtract("add", a0, <<"-">> \o b0)
         ELSE IF ~StartsWith(a0, "-") /\ StartsWith(b0, "-")
         THEN AddOrSubtract("add", a0, Slice(b0, 1))
         ELSE IF StartsWith(a0, "-") /\ StartsWith(b0, "-")
         THEN AddOrSubtract("subtract", Slice(b0, 1), Slice(a0, 1))
         ELSE SubtractUnsigned(a0, b0)

\* add
BigNumber_add(a, b) == AddOrSubtract("add", a, b)

\* subtract
BigNumber_subtract(a, b) == AddOrSubtract("subtract", a, b)

\* How a BigNumber function ends: it returns a string, it throws, or it never
\* comes back from a loop.
NumReturned(s) == [kind |-> "value", val |-> s]
NumThrown == [kind |-> "thrown", val |-> <<>>]
NumDiverges == [kind |-> "diverges", val |-> <<>>]

\* multiply: the inner loop over numA for one digit d of numB, from index k
\* down: <<partialProduct, carry > 0>>, the carry being one digit at most.  A
\* NaN product prints as "NaN" and leaves a NaN carry.
RECURSIVE MultiplyDigits(_, _, _, _, _, _)
MultiplyDigits(numA, d, k, carry, carryNaN, partialProduct) ==
    IF k = 0
    THEN IF ~carryNaN /\ carry > 0
         THEN <<DigitChar(carry)>> \o partialProduct ELSE partialProduct
    ELSE IF carryNaN \/ NotANumber(numA, k) \/ ~IsDigit(d)
         THEN MultiplyDigits(numA, d, k - 1, 0, TRUE, NaNText \o partialProduct)
         ELSE MultiplyDigits(numA, d, k - 1,
                             (DigitVal(numA[k]) * DigitVal(d) + carry) \div 10, FALSE,
                             <<DigitChar((DigitVal(numA[k]) * DigitVal(d) + carry) % 10)>>
                                 \o partialProduct)

\* multiply: the outer loop over the digits of numB, from index k down
RECURSIVE MultiplyRows(_, _, _, _)
MultiplyRows(numA, numB, k, result) ==
    IF k = 0 THEN result
    ELSE MultiplyRows(numA, numB, k - 1,
             BigNumber_add(result,
                 MultiplyDigits(numA, numB[k], Len(numA), 0, FALSE, <<>>)
                     \o Zeros(Len(numB) - k)))

\* multiply: the point put totalFracLen digits from the end of the padded
\* result
MultiplyInsertPoint(padded, totalFracLen) ==
    SubSeq(padded, 1, Len(padded) - totalFracLen) \o <<".">>
        \o SubSeq(padded, Len(padded) - totalFracLen + 1, Len(padded))

\* multiply: the point put back totalFracLen digits from the end
MultiplyPlacePoint(result, totalFracLen) ==
    IF totalFracLen > 0
    THEN MultiplyInsertPoint(IF Len(result) <= totalFracLen
                             THEN Zeros(totalFracLen - Len(result) + 1) \o result
                             ELSE result,
                             totalFracLen)
    ELSE result

\* multiply: the rows of the longer digit string times the digits of the
\* shorter one, summed
MultiplyAligned(numA, numB) ==
    IF Len(numA) < Len(numB)
    THEN MultiplyRows(numB, numA, Len(numA), <<"0">>)
    ELSE MultiplyRows(numA, numB, Len(numB), <<"0">>)

\* multiply, once the operands have lost their signs
MultiplyUnsigned(a, b) ==
    BigNumber_normalize(
        MultiplyPlacePoint(MultiplyAligned(RemoveFirst(a, "."), RemoveFirst(b, ".")),
                           Len(SplitSecond(a)) + Len(SplitSecond(b))))

\* multiply
BigNumber_multiply(a, b) ==
    IF a = <<"0">> \/ b = <<"0">> THEN <<"0">>
    ELSE (IF StartsWith(a, "-") # StartsWith(b, "-") THEN <<"-">> ELSE <<>>)
             \o MultiplyUnsigned(RemoveFirst(a, "-"), RemoveFirst(b, "-"))

\* divide: the inner while loop, <<remainder, qDigit>>.  A loop that takes the
\* divisor off a remainder below ten times the divisor ends within 9 turns; one
\* still running after MaxQDigit turns has a divisor of value zero or a
\* remainder that is no number and never ends: qDigit is then -1.
RECURSIVE DivideInner(_, _, _)
DivideInner(rem, dvsr, q) ==
    IF BigNumber_compare(rem, dvsr) >= 0
    THEN IF q >= MaxQDigit THEN <<rem, -1>>
         ELSE DivideInner(BigNumber_subtract(rem, dvsr), dvsr, q + 1)
    ELSE <<rem, q>>

\* divide: the last lines, which tidy the normalized quotient
TidyEnd(q) == IF EndsWith(q, ".") THEN q \o <<"0">> ELSE q
TidyStart(q) == TidyEnd(IF StartsWith(q, ".") THEN <<"0">> \o q ELSE q)
TidyEmpty(q) == TidyStart(IF q = <<>> \/ q = <<".">> THEN <<"0">> ELSE q)
TidyQuotient(quot) == TidyEmpty(BigNumber_normalize(quot))

\* divide: the outer while loop.  Once the cursor jj has left stk the
\* remainder holds the text "undefined" and the inner loop never ends.
RECURSIVE DivideLoop(_, _, _, _, _, _, _, _)

\* divide: the end of one turn of the outer loop, inner being what the inner
\* loop left: <<remainder, qDigit>>
DivideTurn(stk, dvndLen, dvsr, p, quot, ii, jj, inner) ==
    IF inner[2] = -1 THEN NumDiverges
    ELSE DivideLoop(stk, dvndLen, dvsr, p,
                    quot \o IntToStr(inner[2])
                        \o (IF jj + 1 = dvndLen THEN <<".">> ELSE <<>>),
                    inner[1],
                    IF ii # 0 \/ inner[2] # 0 THEN ii + 1 ELSE ii,
                    jj + 1)

DivideLoop(stk, dvndLen, dvsr, p, quot, rem, ii, jj) ==
    IF ~(ii < p) THEN NumReturned(TidyQuotient(quot))
    ELSE IF jj >= Len(stk) THEN NumDiverges
    ELSE DivideTurn(stk, dvndLen, dvsr, p, quot, ii, jj,
                    DivideInner(rem \o <<stk[jj + 1]>>, dvsr, 0))

\* divide: the loop run on the dividend and divisor brought to integers
DivideAligned(dvnd, dvsr, p) ==
    DivideLoop(dvnd \o Zeros(p + 5), Len(dvnd), dvsr, p, <<>>, <<>>, 0, 0)

\* divide: the dividend and the divisor brought to integers of one scale
DivideParts(dvnd, dvsr, aFracLen, bFracLen, p) ==
    IF bFracLen <= aFracLen
    THEN DivideAligned(dvnd, dvsr \o Zeros(aFracLen - bFracLen), p)
    ELSE DivideAligned(dvnd \o Zeros(bFracLen - aFracLen), dvsr, p)

\* divide, once the operands have lost their signs
DivideUnsigned(a, b, p) ==
    DivideParts(BigNumber_normalize(RemoveFirst(a, ".")),
                BigNumber_normalize(RemoveFirst(b, ".")),
                Len(SplitSecond(a)), Len(SplitSecond(b)), p)

\* divide: the sign put before the quotient the loop returned
DivideSigned(sgn, r) ==
    IF r.kind = "value" THEN NumReturned(sgn \o r.val) ELSE r

\* divide(a, b, precision), as a function of its arguments
BigNumber_divide(a, b, p) ==
    IF b = <<"0">> \/ b = <<"-", "0">> THEN NumThrown
    ELSE IF a = <<"0">> \/ a = <<"-", "0">> THEN NumReturned(<<"0">>)
    ELSE DivideSigned(IF StartsWith(a, "-") # StartsWith(b, "-")
                      THEN <<"-">> ELSE <<>>,
                      DivideUnsigned(RemoveFirst(a, "-"), RemoveFirst(b, "-"), p))

----------------------------------------------------------------------------
(* The BigDecimal calls.  A caller holds a value x and calls its methods   *)
(* with arguments drawn from the bounded input sets, one call at a time.   *)

\* Every value the constructor can make from a small unscaled and scale.
Values ==
    { BigDecimal(u, s) : u \in (-MaxUnscaled)..MaxUnscaled, s \in 0..MaxScale }

\* The scale arguments tried, a negative one included.
ScaleArgs == (-1)..MaxScaleArg

\* The strings handed to from(): every string over TextChars up to MaxTextLen.
TextChars == {"-", "+", ".", "0", "1", "5"}

Texts == UNION { [1..n -> TextChars] : n \in 0..MaxTextLen }

NoCall == [op |-> "none", scale |-> <<>>, mode |-> "HALF_EVEN"]

\* No BigNumber call is in progress.
BigNumberIdle ==
    /\ na = <<>> /\ nb = <<>> /\ nop = "none" /\ phase = "idle" /\ nret = <<>>
    /\ nerr = ""
    /\ precision = 0 /\ sign = <<>> /\ dividend = <<>> /\ divisor = <<>>
    /\ quotient = <<>> /\ stock = <<>> /\ remainder = <<>>
    /\ i = 0 /\ j = 0 /\ qDigit = 0
    /\ sqrtX = <<>> /\ lastX = <<>> /\ iter = 0

\* let pidata: declared, not assigned yet
Undefined == [defined |-> FALSE, text |-> <<>>]

\* initialize(): the triple dropped, the row index back at 1, the table and
\* the displayed digits removed
initialize ==
    /\ array' = <<>>
    /\ rowNum' = 1
    /\ valuelist' = <<>>
    /\ pivalue' = <<>>

\* The page once the script has run: the fetch is under way, initialize() has
\* been called.
PageLoaded ==
    /\ array = <<>> /\ rowNum = 1 /\ valuelist = <<>> /\ pivalue = <<>>
    /\ pidata = Undefined /\ fetched = "pending"
    /\ outcome = "none" /\ scales = {}

Init ==
    /\ x \in Values
    /\ y = zero
    /\ call = NoCall
    /\ ret = NoReturn
    /\ text = <<>>
    /\ BigNumberIdle
    /\ PageLoaded

\* x.div(other, s, mode)
DivCall(other, s, mode) ==
    /\ call.op = "none"
    /\ call' = [op |-> "div", scale |-> <<s>>, mode |-> mode]
    /\ y' = other
    /\ ret' = div(x, other, <<s>>, mode)
    /\ text' = <<>>
    /\ UNCHANGED x

\* x.div(other): scale omitted, rounding defaulted
DivExactCall(other) ==
    /\ call.op = "none"
    /\ call' = [op |-> "div", scale |-> <<>>, mode |-> "HALF_EVEN"]
    /\ y' = other
    /\ ret' = div(x, other, <<>>, "HALF_EVEN")
    /\ text' = <<>>
    /\ UNCHANGED x

\* x.setScale(s, mode)
SetScaleCall(s, mode) ==
    /\ call.op = "none"
    /\ call' = [op |-> "setScale", scale |-> <<s>>, mode |-> mode]
    /\ y' = zero
    /\ ret' = setScale(x, s, mode)
    /\ text' = <<>>
    /\ UNCHANGED x

\* x.sqrt(s, mode)
SqrtCall(s, mode) ==
    /\ call.op = "none"
    /\ call' = [op |-> "sqrt", scale |-> <<s>>, mode |-> mode]
    /\ y' = zero
    /\ ret' = sqrt(x, s, mode)
    /\ text' = <<>>
    /\ UNCHANGED x

\* x.add(other)
AddCall(other) ==
    /\ call.op = "none"
    /\ call' = [op |-> "add", scale |-> <<>>, mode |-> "HALF_EVEN"]
    /\ y' = other
    /\ ret' = Returned(add(x, other))
    /\ text' = <<>>
    /\ UNCHANGED x

\* x.sub(other)
SubCall(other) ==
    /\ call.op = "none"
    /\ call' = [op |-> "sub", scale |-> <<>>, mode |-> "HALF_EVEN"]
    /\ y' = other
    /\ ret' = Returned(sub(x, other))
    /\ text' = <<>>
    /\ UNCHANGED x

\* x.mul(other)
MulCall(other) ==
    /\ call.op = "none"
    /\ call' = [op |-> "mul", scale |-> <<>>, mode |-> "HALF_EVEN"]
    /\ y' = other
    /\ ret' = Returned(mul(x, other))
    /\ text' = <<>>
    /\ UNCHANGED x

\* x.compareTo(other)
CompareToCall(other) ==
    /\ call.op = "none"
    /\ call' = [op |-> "compareTo", scale |-> <<>>, mode |-> "HALF_EVEN"]
    /\ y' = other
    /\ ret' = ReturnedInt(compareTo(x, other))
    /\ text' = <<>>
    /\ UNCHANGED x

\* BigDecimal.from(str)
FromCall(str) ==
    /\ call.op = "none"
    /\ call' = [op |-> "from", scale |-> <<>>, mode |-> "HALF_EVEN"]
    /\ y' = zero
    /\ text' = str
    /\ ret' = from(str)
    /\ UNCHANGED x

\* x.toString()
ToStringCall ==
    /\ call.op = "none"
    /\ call' = [op |-> "toString", scale |-> <<>>, mode |-> "HALF_EVEN"]
    /\ y' = zero
    /\ text' = toString(x)
    /\ ret' = NoReturn
    /\ UNCHANGED x

\* The call is over; the caller goes on with the value it returned.
Chain ==
    /\ ret.kind = "value"
    /\ ret.val \in Values
    /\ x' = ret.val
    /\ y' = zero
    /\ call' = NoCall
    /\ ret' = NoReturn
    /\ text' = <<>>

\* The caller is between two calls.
Idle == call.op = "none"

Next ==
    \/ Idle /\ \E other \in Values, s \in ScaleArgs, mode \in Rounding :
                   DivCall(other, s, mode) /\ UNCHANGED <<numVars, rootVars, pageVars>>
    \/ Idle /\ \E other \in Values : DivExactCall(other) /\ UNCHANGED <<numVars, rootVars, pageVars>>
    \/ Idle /\ \E s \in ScaleArgs, mode \in Rounding :
                   SetScaleCall(s, mode) /\ UNCHANGED <<numVars, rootVars, pageVars>>
    \/ Idle /\ \E s \in ScaleArgs, mode \in Rounding :
                   SqrtCall(s, mode) /\ UNCHANGED <<numVars, rootVars, pageVars>>
    \/ Idle /\ \E other \in Values : AddCall(other) /\ UNCHANGED <<numVars, rootVars, pageVars>>
    \/ Idle /\ \E other \in Values : SubCall(other) /\ UNCHANGED <<numVars, rootVars, pageVars>>
    \/ Idle /\ \E other \in Values : MulCall(other) /\ UNCHANGED <<numVars, rootVars, pageVars>>
    \/ Idle /\ \E other \in Values : CompareToCall(other) /\ UNCHANGED <<numVars, rootVars, pageVars>>
    \/ Idle /\ \E str \in Texts : FromCall(str) /\ UNCHANGED <<numVars, rootVars, pageVars>>
    \/ Idle /\ ToStringCall /\ UNCHANGED <<numVars, rootVars, pageVars>>
    \/ Chain /\ UNCHANGED <<numVars, rootVars, pageVars>>

Spec == Init /\ [][Next]_vars

----------------------------------------------------------------------------
(* The BigNumber calls.  divide runs step by step: one step per turn of    *)
(* its outer loop, and one per turn of the inner subtraction loop.         *)

\* The digits the argument strings are written with.
NumDigits == {"0", "3", "5"}

DigitStrings(lo, hi) == UNION { [1..n -> NumDigits] : n \in lo..hi }

\* The argument strings: an optional minus sign, an integer part, and an
\* optional point followed by a fractional part.
NumStrs ==
    { sg \o ip \o fp :
        sg \in {<<>>, <<"-">>},
        ip \in DigitStrings(1, MaxIntLen),
        fp \in {<<>>} \cup { <<".">> \o f : f \in DigitStrings(1, MaxFracLen) } }

\* The strings divide is called with: those of at most one fractional digit
\* and one integer digit more than it.
DivideStrs == { s \in NumStrs : Len(RemoveFirst(RemoveFirst(s, "-"), ".")) <= 2 }

\* The strings sqrt is called with: the argument strings, "-3" the one
\* negative among them.
SqrtStrs == { s \in NumStrs : ~StartsWith(s, "-") } \cup {<<"-", "3">>}

DecimalIdle ==
    /\ x = zero /\ y = zero /\ call = NoCall /\ ret = NoReturn /\ text = <<>>

InitBigNumber ==
    /\ DecimalIdle
    /\ BigNumberIdle
    /\ PageLoaded

\* BigNumber.add(a, b)
BigNumberAddCall(a, b) ==
    /\ phase = "idle"
    /\ na' = a /\ nb' = b /\ nop' = "add"
    /\ nret' = BigNumber_add(a, b)
    /\ phase' = "returned"
    /\ UNCHANGED <<nerr, precision, sign, dividend, divisor, quotient, stock,
                   remainder, i, j, qDigit>>

\* BigNumber.subtract(a, b)
BigNumberSubtractCall(a, b) ==
    /\ phase = "idle"
    /\ na' = a /\ nb' = b /\ nop' = "subtract"
    /\ nret' = BigNumber_subtract(a, b)
    /\ phase' = "returned"
    /\ UNCHANGED <<nerr, precision, sign, dividend, divisor, quotient, stock,
                   remainder, i, j, qDigit>>

\* BigNumber.divide(a, b, p), up to the head of its loop
DivideCall(a, b, p) ==
    /\ phase = "idle"
    /\ na' = a /\ nb' = b /\ nop' = "divide" /\ precision' = p
    /\ IF b = <<"0">> \/ b = <<"-", "0">>
       THEN /\ phase' = "thrown"
            /\ nerr' = "Error: Division by zero."
            /\ UNCHANGED <<nret, sign, dividend, divisor, quotient, stock,
                           remainder, i, j, qDigit>>
       ELSE IF a = <<"0">> \/ a = <<"-", "0">>
       THEN /\ phase' = "returned"
            /\ nret' = <<"0">>
            /\ UNCHANGED <<nerr, sign, dividend, divisor, quotient, stock,
                           remainder, i, j, qDigit>>
       ELSE LET origA_noSign == RemoveFirst(a, "-")
                origB_noSign == RemoveFirst(b, "-")
                bFracLen == Len(SplitSecond(origB_noSign))
                aFracLen == Len(SplitSecond(origA_noSign))
                dvsr == BigNumber_normalize(RemoveFirst(origB_noSign, "."))
                dvnd == BigNumber_normalize(RemoveFirst(origA_noSign, "."))
            IN  /\ sign' = IF StartsWith(a, "-") # StartsWith(b, "-")
                           THEN <<"-">> ELSE <<>>
                /\ divisor' = IF bFracLen <= aFracLen
                              THEN dvsr \o Zeros(aFracLen - bFracLen) ELSE dvsr
                /\ dividend' = IF bFracLen <= aFracLen
                               THEN dvnd ELSE dvnd \o Zeros(bFracLen - aFracLen)
                /\ quotient' = <<>>
                /\ stock' = dividend' \o Zeros(p + 5)
                /\ remainder' = <<>>
                /\ i' = 0
                /\ j' = 0
                /\ phase' = "outer"
                /\ UNCHANGED <<nret, nerr, qDigit>>

\* stock[j]: a character, or undefined past the end
StockAt(k) == IF k < Len(stock) THEN <<stock[k + 1]>> ELSE UndefinedText

\* while (i < precision): the next digit of stock is brought down.  The model
\* follows the cursor j at most MaxOverrun reads past the end of stock.
DivideBringDown ==
    /\ phase = "outer"
    /\ i < precision
    /\ j < Len(stock) + MaxOverrun
    /\ qDigit' = 0
    /\ remainder' = remainder \o StockAt(j)
    /\ phase' = "inner"
    /\ UNCHANGED <<na, nb, nop, nret, nerr, precision, sign, dividend, divisor,
                   quotient, stock, i, j>>

\* while (_compare(remainder, divisor) >= 0): the divisor is taken off once
\* more.  The model follows the loop for at most MaxQDigit turns, and while
\* the remainder is at most MaxRemainder characters long.
DivideSubtract ==
    /\ phase = "inner"
    /\ BigNumber_compare(remainder, divisor) >= 0
    /\ qDigit < MaxQDigit
    /\ Len(remainder) <= MaxRemainder
    /\ remainder' = BigNumber_subtract(remainder, divisor)
    /\ qDigit' = qDigit + 1
    /\ UNCHANGED <<na, nb, nop, phase, nret, nerr, precision, sign, dividend,
                   divisor, quotient, stock, i, j>>

\* the inner loop is over: the digit joins the quotient, the cursors move on
DivideEmitDigit ==
    /\ phase = "inner"
    /\ BigNumber_compare(remainder, divisor) < 0
    /\ quotient' = quotient \o IntToStr(qDigit)
                       \o (IF j + 1 = Len(dividend) THEN <<".">> ELSE <<>>)
    /\ i' = IF i # 0 \/ qDigit # 0 THEN i + 1 ELSE i
    /\ j' = j + 1
    /\ phase' = "outer"
    /\ UNCHANGED <<na, nb, nop, nret, nerr, precision, sign, dividend, divisor,
                   stock, remainder, qDigit>>

\* the outer loop is over: the quotient is tidied and returned
DivideReturn ==
    /\ phase = "outer"
    /\ ~(i < precision)
    /\ LET q1 == BigNumber_normalize(quotient)
           q2 == IF q1 = <<>> \/ q1 = <<".">> THEN <<"0">> ELSE q1
           q3 == IF StartsWith(q2, ".") THEN <<"0">> \o q2 ELSE q2
           q4 == IF EndsWith(q3, ".") THEN q3 \o <<"0">> ELSE q3
       IN  nret' = sign \o q4
    /\ phase' = "returned"
    /\ UNCHANGED <<na, nb, nop, nerr, precision, sign, dividend, divisor,
                   quotient, stock, remainder, i, j, qDigit>>

\* s.slice(0, n), n >= 0
SliceTo(s, n) == SubSeq(s, 1, IF n < Len(s) THEN n ELSE Len(s))

\* BigNumber.sqrt(n, p), up to the head of its Newton loop
BigNumberSqrtCall(n, p) ==
    /\ phase = "idle"
    /\ na' = n /\ nb' = <<>> /\ nop' = "sqrt" /\ precision' = p
    /\ IF StartsWith(n, "-")
       THEN /\ phase' = "thrown"
            /\ nerr' = "Error: Cannot calculate square root of a negative number."
            /\ UNCHANGED <<nret, sqrtX, lastX, iter>>
       ELSE IF n = <<"0">>
       THEN /\ phase' = "returned"
            /\ nret' = <<"0">>
            /\ UNCHANGED <<nerr, sqrtX, lastX, iter>>
       ELSE /\ sqrtX' = <<"1">> \o (IF Len(SplitHead(n)) > 1
                                    THEN Zeros((Len(SplitHead(n)) - 1) \div 2)
                                    ELSE <<>>)
            /\ lastX' = <<>>
            /\ iter' = 0
            /\ phase' = "newton"
            /\ UNCHANGED <<nret, nerr>>
    /\ UNCHANGED <<sign, dividend, divisor, quotient, stock, remainder, i, j, qDigit>>

\* sqrt: the test that leaves the loop once x and lastX agree on their first
\* precision fractional digits
SqrtConverged(newX, oldX, p) ==
    /\ Len(SplitSecond(newX)) >= p
    /\ SplitHead(newX) \o <<".">> \o SliceTo(SplitSecond(newX), p)
           = SplitHead(oldX) \o <<".">> \o SliceTo(SplitSecond(oldX), p)

\* sqrt: (x + n_div_x) / 2, as divide ends
SqrtHalve(xv, n_div_x, internalPrecision) ==
    IF n_div_x.kind # "value" THEN n_div_x
    ELSE BigNumber_divide(BigNumber_add(xv, n_div_x.val), <<"2">>, internalPrecision)

\* sqrt: x = (x + n / x) / 2 at the internal precision, as divide ends
SqrtNewtonStep(n, xv, internalPrecision) ==
    SqrtHalve(xv, BigNumber_divide(n, xv, internalPrecision), internalPrecision)

\* sqrt: the end of one turn of the Newton loop, newX being what the turn's
\* divisions left
SqrtTurn(newX) ==
    IF newX.kind = "diverges"
    THEN /\ phase' = "hung"
         /\ lastX' = sqrtX
         /\ UNCHANGED <<sqrtX, iter, nerr>>
    ELSE IF newX.kind = "thrown"
    THEN /\ phase' = "thrown"
         /\ nerr' = "Error: Division by zero."
         /\ lastX' = sqrtX
         /\ UNCHANGED <<sqrtX, iter>>
    ELSE /\ sqrtX' = newX.val
         /\ lastX' = sqrtX
         /\ IF SqrtConverged(newX.val, sqrtX, precision)
            THEN phase' = "converged" /\ UNCHANGED iter
            ELSE phase' = "newton" /\ iter' = iter + 1
         /\ UNCHANGED nerr

\* One turn of the Newton loop of sqrt.  A division that never comes back
\* leaves the call hung; one that throws ends the call.
SqrtIterate ==
    /\ phase = "newton"
    /\ iter < 100
    /\ sqrtX # lastX
    /\ SqrtTurn(SqrtNewtonStep(na, sqrtX, precision + 5))
    /\ UNCHANGED <<na, nb, nop, nret, precision, sign, dividend, divisor,
                   quotient, stock, remainder, i, j, qDigit>>

\* sqrt: the loop is over, x is cut to precision fractional digits and returned
SqrtReturn ==
    /\ \/ phase = "converged"
       \/ phase = "newton" /\ (~(iter < 100) \/ sqrtX = lastX)
    /\ nret' = BigNumber_normalize(SplitHead(sqrtX) \o <<".">>
                                       \o SliceTo(SplitSecond(sqrtX), precision))
    /\ phase' = "returned"
    /\ UNCHANGED <<na, nb, nop, nerr, precision, sign, dividend, divisor,
                   quotient, stock, remainder, i, j, qDigit, sqrtX, lastX, iter>>

\* No BigNumber call has been made yet.
NumberIdle == phase = "idle"

NextBigNumber ==
    \/ NumberIdle /\ \E a \in NumStrs, b \in NumStrs :
                         BigNumberAddCall(a, b) /\ UNCHANGED <<decVars, rootVars, pageVars>>
    \/ NumberIdle /\ \E a \in NumStrs, b \in NumStrs :
                         BigNumberSubtractCall(a, b) /\ UNCHANGED <<decVars, rootVars, pageVars>>
    \/ NumberIdle /\ \E a \in DivideStrs, b \in DivideStrs, p \in 1..MaxPrecision :
                         DivideCall(a, b, p) /\ UNCHANGED <<decVars, rootVars, pageVars>>
    \/ DivideBringDown /\ UNCHANGED <<decVars, rootVars, pageVars>>
    \/ DivideSubtract /\ UNCHANGED <<decVars, rootVars, pageVars>>
    \/ DivideEmitDigit /\ UNCHANGED <<decVars, rootVars, pageVars>>
    \/ DivideReturn /\ UNCHANGED <<decVars, rootVars, pageVars>>
    \/ NumberIdle /\ \E n \in SqrtStrs, p \in 0..MaxPrecision :
                         BigNumberSqrtCall(n, p) /\ UNCHANGED <<decVars, pageVars>>
    \/ SqrtIterate /\ UNCHANGED <<decVars, pageVars>>
    \/ SqrtReturn /\ UNCHANGED <<decVars, pageVars>>

SpecBigNumber == InitBigNumber /\ [][NextBigNumber]_vars

----------------------------------------------------------------------------
(* The driver page: the calculate and reset buttons, and the fetch of the  *)
(* reference digits, which ends at any time between two handlers.          *)

\* The text of 1-10000.txt: the digits of the circle constant after "3.".
PiText == <<"1", "4", "1", "5", "9", "2", "6", "5", "3", "5", "8", "9">>

\* x.slice(0, x.indexOf('.') + scale + 1)
CutAfterPoint(s, scale) == SliceTo(s, FirstIndex(s, ".") + scale)

\* sqrt of the driver: (x + n_div_x) / 2, as divide ends
Driver_halve(xv, n_div_x, scale) ==
    IF n_div_x.kind # "value" THEN n_div_x
    ELSE BigNumber_divide(BigNumber_add(xv, n_div_x.val), <<"2">>, scale)

\* sqrt of the driver: the for loop, k turns of it left, xr being how the
\* last turn ended
RECURSIVE Driver_sqrtLoop(_, _, _, _)
Driver_sqrtLoop(n, xr, k, scale) ==
    IF k = 0 \/ xr.kind # "value" THEN xr
    ELSE Driver_sqrtLoop(n,
             Driver_halve(xr.val, BigNumber_divide(n, xr.val, scale), scale),
             k - 1, scale)

\* sqrt of the driver: the slice that ends it
Driver_sqrtCut(xr, scale) ==
    IF xr.kind # "value" THEN xr ELSE NumReturned(CutAfterPoint(xr.val, scale))

\* sqrt(n, scale) of the driver
Driver_sqrt(n, scale) ==
    Driver_sqrtCut(Driver_sqrtLoop(n, NumReturned(n), scale, scale), scale)

\* culculate: its last two lines, arr holding the new count and b, root being
\* how sqrt ended.  The array is changed in place: what was assigned before
\* a throw stays assigned.
culculateRoot(arr, root, scale) ==
    IF root.kind # "value" THEN [end |-> root.kind, array |-> arr]
    ELSE [end |-> "value",
          array |-> <<arr[1], root.val, CutAfterPoint(arr[3], scale)>>]

\* culculate: from the assignment of array[2] on, quot being how the division
\* ended
culculateMean(arr, quot, scale) ==
    IF quot.kind # "value" THEN [end |-> quot.kind, array |-> arr]
    ELSE culculateRoot(<<arr[1], arr[2], BigNumber_multiply(<<"2">>, quot.val)>>,
                       Driver_sqrt(BigNumber_multiply(arr[2],
                                       BigNumber_multiply(<<"2">>, quot.val)),
                                   scale),
                       scale)

\* culculate(array, scale): [end, array]
culculate(arr, scale) ==
    culculateMean(<<2 * arr[1], arr[2], arr[3]>>,
                  BigNumber_divide(BigNumber_multiply(arr[2], arr[3]),
                                   BigNumber_add(arr[2], arr[3]), scale),
                  scale)

\* addtable(i, array): the row appended to the columns i, n, ln and Ln
addtable(rows, arr, index) ==
    Append(rows, [i |-> index, n |-> arr[1], ln |-> arr[2], Ln |-> arr[3]])

\* The click handler: the seeding of the triple when there is none
ClickSeed(root) ==
    IF array # <<>>
    THEN [end |-> "value", array |-> array, num |-> rowNum, rows |-> valuelist]
    ELSE IF root.kind # "value"
    THEN [end |-> root.kind, array |-> <<>>, num |-> rowNum, rows |-> valuelist]
    ELSE [end |-> "value",
          array |-> <<6, <<"3">>, BigNumber_multiply(<<"2">>, root.val)>>,
          num |-> rowNum, rows |-> valuelist]

\* The click handler: one turn of its for loop, st being the page before the
\* turn and step how culculate ended
ClickTurn(st, step) ==
    [end |-> step.end,
     array |-> step.array,
     num |-> IF step.end = "value" THEN st.num + 1 ELSE st.num,
     rows |-> addtable(st.rows, st.array, st.num)]

\* The click handler: its for loop from turn k on
RECURSIVE ClickLoop(_, _, _, _)
ClickLoop(k, n, scale, st) ==
    IF k > n \/ st.end # "value" THEN st
    ELSE ClickLoop(k + 1, n, scale, ClickTurn(st, culculate(st.array, scale)))

\* s[k], <<>> when undefined
CharAt(s, k) == IF k < Len(s) THEN <<s[k + 1]>> ELSE <<>>

\* displayPI: the digits of value that match the reference digits, counted
\* from index k
RECURSIVE MatchedDigits(_, _, _)
MatchedDigits(value, data, k) ==
    IF k < Len(value) /\ CharAt(data, k) = CharAt(value, k + 2)
    THEN MatchedDigits(value, data, k + 1) ELSE k

\* value.slice(start, end), 0 <= start
SliceRange(s, start, end) ==
    SubSeq(s, start + 1, IF end < Len(s) THEN end ELSE Len(s))

\* displayPI: the texts of Int and Frac in one digit container
DigitContainer(value, cutpos) ==
    << IF Len(value) > cutpos
       THEN (IF cutpos > 0 THEN SliceTo(value, cutpos) ELSE <<>>)
       ELSE value,
       IF Len(value) > 10 THEN SliceRange(value, cutpos, 10)
       ELSE IF Len(value) > cutpos THEN Slice(value, cutpos)
       ELSE value >>

\* displayPI: the second while loop, matched being i and jj being j
RECURSIVE DigitContainers(_, _, _)
DigitContainers(value, matched, jj) ==
    IF Len(value) = 0 THEN <<>>
    ELSE <<DigitContainer(value,
               IF matched >= jj /\ jj + 10 > matched THEN matched - jj
               ELSE IF matched > jj THEN 10 ELSE 0)>>
         \o DigitContainers(IF Len(value) > 10 THEN Slice(value, 10) ELSE <<>>,
                            matched, jj + 10)

\* displayPI(value): the texts in the containers are removed; pidata[i] throws
\* a TypeError while pidata is undefined; the new containers are appended.
displayPI(value) ==
    IF Len(value) > 0 /\ ~pidata.defined
    THEN /\ pivalue' = [k \in 1..Len(pivalue) |-> <<>>]
         /\ outcome' = "TypeError"
    ELSE /\ pivalue' = [k \in 1..Len(pivalue) |-> <<>>]
                           \o DigitContainers(value,
                                  MatchedDigits(value, pidata.text, 0), 0)
         /\ outcome' = "done"

\* The click handler, st being the page as its for loop left it.  A throw ends
\* the handler; a loop that never ends leaves the page hung.
ClickEnd(st) ==
    /\ array' = st.array
    /\ rowNum' = st.num
    /\ valuelist' = st.rows
    /\ IF st.end = "value" THEN displayPI(st.array[3])
       ELSE /\ outcome' = (IF st.end = "thrown" THEN "Error" ELSE "hung")
            /\ UNCHANGED pivalue

\* A click on the calculate button, the fields holding n and scale.  The
\* model follows the table up to MaxRows rows and the digit display up to
\* MaxContainers containers.
Click(n, scale) ==
    /\ outcome # "hung"
    /\ Len(valuelist) + n <= MaxRows
    /\ Len(pivalue) < MaxContainers
    /\ ClickEnd(ClickLoop(1, n, scale, ClickSeed(Driver_sqrt(<<"3">>, scale))))
    /\ scales' = scales \cup {scale}
    /\ UNCHANGED <<pidata, fetched>>

\* A click on the reset button
Reset ==
    /\ outcome # "hung"
    /\ initialize
    /\ outcome' = "done"
    /\ scales' = {}
    /\ UNCHANGED <<pidata, fetched>>

\* The fetch ends well: .then(t => pidata = t)
FetchResolved ==
    /\ outcome # "hung"
    /\ fetched = "pending"
    /\ fetched' = "resolved"
    /\ pidata' = [defined |-> TRUE, text |-> PiText]
    /\ UNCHANGED <<array, rowNum, valuelist, pivalue, outcome, scales>>

\* The fetch fails: the promise is rejected, nothing is assigned
FetchRejected ==
    /\ outcome # "hung"
    /\ fetched = "pending"
    /\ fetched' = "failed"
    /\ UNCHANGED <<array, rowNum, valuelist, pivalue, pidata, outcome, scales>>

InitDriver ==
    /\ DecimalIdle
    /\ BigNumberIdle
    /\ PageLoaded

NextDriver ==
    \/ \E n \in 0..MaxIterate, scale \in 0..MaxWorkingPrecision :
           Click(n, scale) /\ UNCHANGED <<decVars, numVars, rootVars>>
    \/ Reset /\ UNCHANGED <<decVars, numVars, rootVars>>
    \/ FetchResolved /\ UNCHANGED <<decVars, numVars, rootVars>>
    \/ FetchRejected /\ UNCHANGED <<decVars, numVars, rootVars>>

SpecDriver == InitDriver /\ [][NextDriver]_vars

----------------------------------------------------------------------------
(* What the calls are measured against: exact rational arithmetic on       *)
(* fractions n/d of integers, stated with floor division only.             *)

\* The floor and the ceiling of n/d, d > 0.
FloorQ(n, d) == n \div d
CeilQ(n, d) == -((-n) \div d)

\* n/d (d > 0) rounded to an integer as the rounding mode defines.
RoundPos(n, d, mode) ==
    LET f == FloorQ(n, d)
        twice == 2 * (n - f * d)        \* twice the distance from the floor, in d-ths
    IN  CASE mode = "DOWN" -> IF n >= 0 THEN f ELSE CeilQ(n, d)
          [] mode = "UP" -> IF n >= 0 THEN CeilQ(n, d) ELSE f
          [] mode = "FLOOR" -> f
          [] mode = "CEIL" -> CeilQ(n, d)
          [] mode = "HALF_UP" ->
               IF twice < d THEN f
               ELSE IF twice > d THEN f + 1
               ELSE IF n >= 0 THEN f + 1 ELSE f
          [] mode = "HALF_EVEN" ->
               IF twice < d THEN f
               ELSE IF twice > d THEN f + 1
               ELSE IF f % 2 = 0 THEN f ELSE f + 1

\* n/d (d # 0) rounded to an integer as the rounding mode defines.
ExactRounded(n, d, mode) ==
    IF d > 0 THEN RoundPos(n, d, mode) ELSE RoundPos(-n, -d, mode)

\* The unscaled integer of v at scale s >= v.scale.
Scaled(v, s) == v.unscaled * tenPow(s - v.scale)

\* a and b are the same number: equal when written with the larger of the
\* two scales.
SameValue(a, b) ==
    LET s == IF a.scale > b.scale THEN a.scale ELSE b.scale
    IN  a.unscaled * tenPow(s - a.scale) = b.unscaled * tenPow(s - b.scale)

\* The number of characters after the decimal point of a text.
FracDigits(t) == IF FirstIndex(t, ".") = 0 THEN 0 ELSE Len(t) - FirstIndex(t, ".")

\* The last call was x.div(y, s, mode) with a scale s >= 0 and y # 0.
ScaledDiv ==
    /\ call.op = "div"
    /\ call.scale # <<>>
    /\ call.scale[1] >= 0
    /\ y.unscaled # 0

\* The last call was x.div(y) with the scale omitted and y # 0.
ExactDiv ==
    /\ call.op = "div"
    /\ call.scale = <<>>
    /\ y.unscaled # 0

----------------------------------------------------------------------------
(* The claims about BigDecimal, checked under Spec.                        *)

\* C1: div with an explicit scale s, s + b.scale >= a.scale, returns the exact
\* quotient a/b rounded to s fractional digits under the mode, sign included:
\* a nonzero result is negative exactly when exactly one of a, b is negative.
C1_DivRoundsExactQuotient ==
    (ScaledDiv /\ call.scale[1] + y.scale >= x.scale) =>
        /\ ret.kind = "value"
        /\ ret.val.scale <= call.scale[1]
        /\ Scaled(ret.val, call.scale[1]) =
               ExactRounded(x.unscaled * tenPow(call.scale[1] + y.scale),
                            y.unscaled * tenPow(x.scale), call.mode)
        /\ (ret.val.unscaled # 0 =>
               ((ret.val.unscaled < 0) <=> ((x.unscaled < 0) # (y.unscaled < 0))))

\* C3: div with the scale omitted returns q with q * b = a exactly or throws
\* the non-terminating-division error; it throws exactly when the integer
\* division of the scale-aligned magnitudes leaves a remainder.
C3_ExactDivisionOrFail ==
    ExactDiv =>
        LET m == IF x.scale > y.scale THEN x.scale ELSE y.scale
            A == Abs(x.unscaled) * tenPow(m - x.scale)
            B == Abs(y.unscaled) * tenPow(m - y.scale)
        IN  /\ ret.kind \in {"value", "throw"}
            /\ (ret.kind = "throw") <=> (A % B # 0)
            /\ ret.kind = "throw" =>
                   ret.err = "RangeError: Non-terminating division; specify scale & rounding"
            /\ ret.kind = "value" =>
                   ret.val.unscaled * y.unscaled * tenPow(x.scale)
                       = x.unscaled * tenPow(ret.val.scale + y.scale)

\* C3 witness: an exact division by a fraction returned its quotient (1 / 0.5).
C3_Witness ==
    /\ ExactDiv
    /\ ret.kind = "value"
    /\ y.scale > x.scale
    /\ ret.val.unscaled # 0

\* C4: a successful div(a, b, s, mode) returns a value whose stored scale is s,
\* so that its text shows exactly s fractional digits when s > 0.
C4_DivResultHasRequestedScale ==
    (ScaledDiv /\ ret.kind = "value") =>
        /\ ret.val.scale = call.scale[1]
        /\ (call.scale[1] > 0 => FracDigits(toString(ret.val)) = call.scale[1])

\* C5 as stated: mul(div(a, b, s, DOWN), b) differs from a by less than 10^-s.
C5_InverseWithinUnit ==
    (ScaledDiv /\ call.mode = "DOWN" /\ ret.kind = "value") =>
        LET d == sub(mul(ret.val, y), x)
        IN  Abs(d.unscaled) * tenPow(call.scale[1]) < tenPow(d.scale)

\* C5 amended: mul(div(a, b, s, DOWN), b) differs from a by less than
\* |b| * 10^-s.
C5_InverseWithinDivisorUnit ==
    (ScaledDiv /\ call.mode = "DOWN") =>
        /\ ret.kind = "value"
        /\ LET d == sub(mul(ret.val, y), x)
           IN  Abs(d.unscaled) * tenPow(call.scale[1] + y.scale)
                   < Abs(y.unscaled) * tenPow(d.scale)

\* C5 witness: a truncating division whose product falls short of a by more
\* than a unit of the last digit (7 / 3 at scale 0).
C5_Witness ==
    /\ ScaledDiv
    /\ call.mode = "DOWN"
    /\ ret.kind = "value"
    /\ LET d == sub(mul(ret.val, y), x)
       IN  Abs(d.unscaled) * tenPow(call.scale[1]) > tenPow(d.scale)

\* C6: setScale(newScale, mode) with newScale < scale returns the value rounded
\* to newScale fractional digits as the mode defines (0.5 -> 1 under HALF_UP and
\* 0 under HALF_EVEN, 1.5 -> 2 under both); with newScale >= scale the value is
\* unchanged.
C6_SetScaleRounds ==
    (call.op = "setScale" /\ call.scale[1] >= 0) =>
        /\ ret.kind = "value"
        /\ call.scale[1] < x.scale =>
               /\ ret.val.scale <= call.scale[1]
               /\ Scaled(ret.val, call.scale[1]) =
                      ExactRounded(x.unscaled, tenPow(x.scale - call.scale[1]), call.mode)
        /\ call.scale[1] >= x.scale => SameValue(ret.val, x)
        /\ (x = BigDecimal(5, 1) /\ call.scale[1] = 0 /\ call.mode = "HALF_UP")
               => ret.val = BigDecimal(1, 0)
        /\ (x = BigDecimal(5, 1) /\ call.scale[1] = 0 /\ call.mode = "HALF_EVEN")
               => ret.val = BigDecimal(0, 0)
        /\ (x = BigDecimal(15, 1) /\ call.scale[1] = 0
                /\ call.mode \in {"HALF_UP", "HALF_EVEN"})
               => ret.val = BigDecimal(2, 0)

\* C6 witness: a negative tie rounded to the even neighbour (-1.5 -> -2).
C6_Witness ==
    /\ call.op = "setScale"
    /\ call.scale = <<0>>
    /\ call.mode = "HALF_EVEN"
    /\ x = BigDecimal(-15, 1)
    /\ ret = Returned(BigDecimal(-2, 0))

\* A value in minimal form.
Minimal(v) ==
    /\ v.scale \in Nat
    /\ v.unscaled = 0 => v.scale = 0
    /\ v.scale > 0 => v.unscaled % 10 # 0

C8_CompareToIsSignOfDifference ==
    call.op = "compareTo" =>
        LET diff == x.unscaled * tenPow(y.scale) - y.unscaled * tenPow(x.scale)
        IN  /\ ret.kind = "int"
            /\ ret.n = Sign(diff)
            /\ eq(x, y) <=> (diff = 0)
            /\ lt(x, y) <=> (diff < 0)
            /\ lte(x, y) <=> (diff <= 0)
            /\ gt(x, y) <=> (diff > 0)
            /\ gte(x, y) <=> (diff >= 0)
            /\ compareTo(y, x) = -ret.n
            /\ \A c \in Values : (lte(x, y) /\ lte(y, c)) => lte(x, c)

\* C8 witness: a value of larger scale and larger unscaled that is the smaller
\* number (0.7 against 5).
C8_Witness ==
    /\ call.op = "compareTo"
    /\ x.scale > y.scale
    /\ x.unscaled > y.unscaled
    /\ ret.n = -1

\* C9: add and mul are commutative and associative under value equality.
C9_AddMulCommutativeAssociative ==
    /\ call.op = "add" =>
           /\ eq(ret.val, add(y, x))
           /\ SameValue(ret.val, add(y, x))
           /\ \A c \in Values :
                  /\ eq(add(ret.val, c), add(x, add(y, c)))
                  /\ SameValue(add(ret.val, c), add(x, add(y, c)))
    /\ call.op = "mul" =>
           /\ eq(ret.val, mul(y, x))
           /\ SameValue(ret.val, mul(y, x))
           /\ \A c \in Values :
                  /\ eq(mul(ret.val, c), mul(x, mul(y, c)))
                  /\ SameValue(mul(ret.val, c), mul(x, mul(y, c)))

\* C9 witness: a sum of two values of different sign and different scale.
C9_Witness ==
    /\ call.op = "add"
    /\ x.unscaled < 0
    /\ y.unscaled > 0
    /\ x.scale # y.scale
    /\ ret.kind = "value"
    /\ ret.val.unscaled # 0

\* BigDecimal.div by a zero divisor throws the division-by-zero error, with
\* or without a scale, under every rounding mode (the BigDecimal half of C2).
DecimalDivisionByZeroThrows ==
    (call.op = "div" /\ y.unscaled = 0) =>
        ret = Thrown("RangeError: Division by zero")

----------------------------------------------------------------------------
(* The claims about BigNumber, checked under SpecBigNumber.                *)

\* A text is a decimal numeral: an optional minus sign, digits, at most one
\* point, and at least one digit.
IsNumeral(s) ==
    LET body == IF StartsWith(s, "-") THEN Slice(s, 1) ELSE s
    IN  /\ \E k \in 1..Len(body) : IsDigit(body[k])
        /\ \A k \in 1..Len(body) : IsDigit(body[k]) \/ k = FirstIndex(body, ".")

\* The digits of a numeral as an integer, its sign applied.
NumeralUnscaled(s) ==
    IF StartsWith(s, "-")
    THEN -StrToInt(RemoveFirst(Slice(s, 1), "."))
    ELSE StrToInt(RemoveFirst(s, "."))

\* The number of fractional digits of a numeral.
NumeralScale(s) == FracDigits(s)

\* The numeral's number is zero.
NumeralIsZero(s) == IsNumeral(s) /\ NumeralUnscaled(s) = 0

\* C2: division by a divisor whose value is zero, in any spelling of zero,
\* ends by raising the division-by-zero error: it never returns a value and
\* never runs on into the division loop.
C2_DivisionByZeroFails ==
    (nop = "divide" /\ NumeralIsZero(nb)) =>
        /\ phase = "thrown"
        /\ nerr = "Error: Division by zero."

\* With a divisor of value zero that is not spelled "0" or "-0", the inner
\* loop of divide is never left: its condition holds at every turn.
ZeroDivisorLoopNeverEnds ==
    (nop = "divide" /\ NumeralIsZero(nb) /\ phase = "inner") =>
        BigNumber_compare(remainder, divisor) >= 0

\* C10: subtract(a, b) returns the exact difference a - b with the correct
\* sign, and exactly "0" when a and b are numerically equal.
C10_SubtractIsExactDifference ==
    nop = "subtract" =>
        LET k == Max(NumeralScale(na), NumeralScale(nb))
            diff == NumeralUnscaled(na) * tenPow(k - NumeralScale(na))
                        - NumeralUnscaled(nb) * tenPow(k - NumeralScale(nb))
        IN  /\ phase = "returned"
            /\ IsNumeral(nret)
            /\ NumeralScale(nret) <= k
            /\ NumeralUnscaled(nret) * tenPow(k - NumeralScale(nret)) = diff
            /\ StartsWith(nret, "-") <=> (diff < 0)
            /\ diff = 0 => nret = <<"0">>

----------------------------------------------------------------------------
(* The claims about BigDecimal.sqrt and about div with a negative scaling  *)
(* exponent, checked under Spec.                                           *)

\* The last call was x.sqrt(s, mode) with x >= 0 and a scale s >= 0.
SqrtOfNonNegative ==
    /\ call.op = "sqrt"
    /\ call.scale[1] >= 0
    /\ x.unscaled >= 0

\* C11: for v >= 0 and 2*s >= v.scale, sqrt(v, s, mode) is the largest multiple
\* r of 10^-s with r*r <= v: r * 10^s is floor(sqrt(v.unscaled * 10^(2s - v.scale))).
C11_SqrtIsFloorRoot ==
    (SqrtOfNonNegative /\ 2 * call.scale[1] >= x.scale) =>
        LET I == x.unscaled * tenPow(2 * call.scale[1] - x.scale)
        IN  /\ ret.kind = "value"
            /\ ret.val.scale <= call.scale[1]
            /\ Scaled(ret.val, call.scale[1]) * Scaled(ret.val, call.scale[1]) <= I
            /\ I < (Scaled(ret.val, call.scale[1]) + 1)
                       * (Scaled(ret.val, call.scale[1]) + 1)

\* C16: div with a.scale > s + b.scale returns the exact quotient a/b rounded
\* to s fractional digits under the mode: the digits the pre-scaling discards
\* still count in the rounding.
C16_DivNegativeExponentRounds ==
    (ScaledDiv /\ x.scale > call.scale[1] + y.scale) =>
        /\ ret.kind = "value"
        /\ ret.val.scale <= call.scale[1]
        /\ Scaled(ret.val, call.scale[1]) =
               ExactRounded(x.unscaled,
                            y.unscaled * tenPow(x.scale - call.scale[1] - y.scale),
                            call.mode)

\* C17: for v >= 0 and v.scale > 2*s, sqrt(v, s, mode) differs from the square
\* root of v by less than 10^-s: with R the result in units of 10^-s,
\* (R - 1)^2 < v * 10^(2s) < (R + 1)^2.
C17_SqrtNegativeExponentWithinUnit ==
    (SqrtOfNonNegative /\ x.scale > 2 * call.scale[1] /\ x.unscaled > 0) =>
        LET R == Scaled(ret.val, call.scale[1])
            v == x.unscaled * tenPow(2 * call.scale[1])
            unit == tenPow(x.scale)
        IN  /\ ret.kind = "value"
            /\ ret.val.scale <= call.scale[1]
            /\ R >= 1 => (R - 1) * (R - 1) * unit < v
            /\ v < (R + 1) * (R + 1) * unit

\* C19: for v >= 0 and 2*s >= v.scale, sqrt(v, s, mode) returns the same value
\* under all six rounding modes.
C19_SqrtIgnoresRoundingMode ==
    (SqrtOfNonNegative /\ 2 * call.scale[1] >= x.scale) =>
        \A mode \in Rounding : sqrt(x, call.scale[1], mode) = ret

\* C19 witness: a root that is not exact (of 2 to one digit), asked for under
\* a mode that would round away from zero.
C19_Witness ==
    /\ SqrtOfNonNegative
    /\ call.scale = <<1>>
    /\ call.mode = "UP"
    /\ x = BigDecimal(2, 0)
    /\ ret.kind = "value"
    /\ ret.val.unscaled > 0

----------------------------------------------------------------------------
(* The claims about the loop of BigNumber.divide, checked under            *)
(* SpecBigNumber.                                                          *)

\* The call is divide(a, b, p) with numerals a and b, b not zero in value.
DivideByNonZero ==
    /\ nop = "divide"
    /\ IsNumeral(na)
    /\ IsNumeral(nb)
    /\ ~NumeralIsZero(nb)

\* C18: in divide(a, b, p) with b # 0 and p >= 1 the cursor j is below the
\* length of stock at every read of stock[j] (phase "inner" follows the read
\* of stock[j]; phase "outer" with i < precision precedes it), and the call
\* returns with i = p digits counted from the first nonzero one.
C18_DivideCursorWithinStock ==
    DivideByNonZero =>
        /\ (phase = "inner" \/ (phase = "outer" /\ i < precision)) => j < Len(stock)
        /\ (phase = "returned" /\ stock # <<>>) => i = precision

\* Once the cursor has left stock the remainder holds the text "undefined",
\* and the inner loop is never left: its condition holds at every turn.
OverrunLoopNeverEnds ==
    (DivideByNonZero /\ phase = "inner" /\ j >= Len(stock)) =>
        BigNumber_compare(remainder, divisor) >= 0

\* C15: divide(a, b, p) with b # 0 and p >= 1 returns the digits of
\* BigDecimal.div(a, b, p, DOWN): the exact quotient a/b truncated toward zero
\* to p digits after the decimal point.
C15_DivideAgreesWithScaledDivision ==
    (DivideByNonZero /\ phase = "returned") =>
        LET A == from(na).val
            B == from(nb).val
            viaDecimal == div(A, B, <<precision>>, "DOWN")
            exact == TruncDiv(NumeralUnscaled(na) * tenPow(precision + NumeralScale(nb)),
                              NumeralUnscaled(nb) * tenPow(NumeralScale(na)))
        IN  /\ IsNumeral(nret)
            /\ viaDecimal.kind = "value"
            /\ Scaled(viaDecimal.val, precision) = exact
            /\ NumeralScale(nret) <= precision
            /\ NumeralUnscaled(nret) * tenPow(precision - NumeralScale(nret)) = exact

\* The steps of divide end as the function BigNumber_divide says.
DivideStepsMatchFunction ==
    nop = "divide" =>
        /\ phase = "returned" => BigNumber_divide(na, nb, precision) = NumReturned(nret)
        /\ phase = "thrown" => BigNumber_divide(na, nb, precision) = NumThrown

\* C14: sqrt(n, precision) of a non-negative decimal string n ends: its Newton
\* loop makes at most 100 turns, and every division issued in the loop returns
\* (the call is never left hung in a division).
C14_SqrtTerminates ==
    (nop = "sqrt" /\ IsNumeral(na) /\ ~StartsWith(na, "-")) =>
        /\ iter <= 100
        /\ phase # "hung"
        /\ phase \in {"newton", "converged", "returned"}

\* sqrt of a numeral whose integer part is canonical and which is not a zero
\* spelled otherwise than "0" is never left hung.
CanonicalSqrtNeverHangs ==
    (nop = "sqrt" /\ IsNumeral(na) /\ ~StartsWith(na, "-")
        /\ (NumeralIsZero(na) => na = <<"0">>)) => phase # "hung"

----------------------------------------------------------------------------
(* The claims about the driver page, checked under SpecDriver.             *)

\* The number of numeral s is at most the number of numeral t.
NumeralLeq(s, t) ==
    NumeralUnscaled(s) * tenPow(Max(NumeralScale(s), NumeralScale(t)) - NumeralScale(s))
        <= NumeralUnscaled(t) * tenPow(Max(NumeralScale(s), NumeralScale(t)) - NumeralScale(t))

\* C12: after any clicks on calculate and reset, the k-th row appended since
\* the last reset shows index k and count 6 * 2^(k-1), and the stored triple's
\* count is 6 * 2^(steps taken since that reset): a click without a reset
\* between continues from the stored triple.
C12_RowSequence ==
    /\ \A k \in 1..Len(valuelist) :
           /\ valuelist[k].i = k
           /\ valuelist[k].n = 6 * 2^(k - 1)
    /\ array # <<>> => array[1] = 6 * 2^Len(valuelist)
    /\ array = <<>> => valuelist = <<>>

\* While every click since the last reset used a working precision p >= 1,
\* the rows and the stored count are as C12 says.
RowSequenceAtPositivePrecision ==
    0 \notin scales => C12_RowSequence

\* C13: while every click since the last reset used one working precision
\* p >= 1, b never increases: over the rows, and from the last row to the
\* stored triple.
C13_BNonIncreasing ==
    (Cardinality(scales) <= 1 /\ 0 \notin scales) =>
        /\ \A k \in 1..(Len(valuelist) - 1) :
               NumeralLeq(valuelist[k + 1].Ln, valuelist[k].Ln)
        /\ (array # <<>> /\ valuelist # <<>>) =>
               NumeralLeq(array[3], valuelist[Len(valuelist)].Ln)

\* C20: no click on calculate reaches the digit-matching loop of displayPI
\* while pidata is still undefined, whenever the fetch ends or fails.
C20_PidataAssignedBeforeIndexed ==
    outcome # "TypeError"

\* While every click since the last reset used a working precision p >= 1,
\* no click ends with a throw from the arithmetic or in a loop that never ends.
ClickArithmeticEnds ==
    0 \notin scales => outcome \notin {"Error", "hung"}

=============================================================================
